---- MODULE Spec2Model ----
(***************************************************************************)
(* Model of data/scripts/3_parse_options.py: the instrument-name decoder   *)
(* (parse_instrument_name), the file-scan pass and the write pass of       *)
(* process_all_files, and save_option_data / generate_metadata.            *)
(*                                                                         *)
(* Strings are sequences of one-character strings, so that split('-'),     *)
(* int() and strptime('%d%b%y') are computed the way Python computes them. *)
(***************************************************************************)
EXTENDS Integers, Sequences, FiniteSets, TLC

\* ------------------------------------------------------------------------
\* Bounds of the model
\* ------------------------------------------------------------------------
MaxFiles == 2
MaxRows == 2

\* ------------------------------------------------------------------------
\* Character-level helpers
\* ------------------------------------------------------------------------
None == [none |-> TRUE]

DigitChars == <<"0", "1", "2", "3", "4", "5", "6", "7", "8", "9">>

UpperChars ==
  <<"A", "B", "C", "D", "E", "F", "G", "H", "I", "J", "K", "L", "M",
    "N", "O", "P", "Q", "R", "S", "T", "U", "V", "W", "X", "Y", "Z">>

LowerChars ==
  <<"a", "b", "c", "d", "e", "f", "g", "h", "i", "j", "k", "l", "m",
    "n", "o", "p", "q", "r", "s", "t", "u", "v", "w", "x", "y", "z">>

IsDigit(c) == \E k \in 1..10 : DigitChars[k] = c

DigitVal(c) == (CHOOSE k \in 1..10 : DigitChars[k] = c) - 1

Upper(c) ==
  IF \E k \in 1..26 : LowerChars[k] = c
  THEN UpperChars[CHOOSE k \in 1..26 : LowerChars[k] = c]
  ELSE c

UpperStr(s) == [k \in 1..Len(s) |-> Upper(s[k])]

\* value of a sequence of decimal digits
RECURSIVE DigitsVal(_)
DigitsVal(s) ==
  IF s = <<>> THEN 0
  ELSE 10 * DigitsVal(SubSeq(s, 1, Len(s) - 1)) + DigitVal(s[Len(s)])

\* n as exactly w decimal digits (n < 10^w)
RECURSIVE ZeroPad(_, _)
ZeroPad(n, w) ==
  IF w = 0 THEN <<>>
  ELSE Append(ZeroPad(n \div 10, w - 1), DigitChars[(n % 10) + 1])

\* str.split(sep) for a one-character separator
RECURSIVE Split(_, _)
Split(s, sep) ==
  IF \A k \in 1..Len(s) : s[k] # sep THEN <<s>>
  ELSE LET k == CHOOSE j \in 1..Len(s) :
                  s[j] = sep /\ \A m \in 1..(j - 1) : s[m] # sep
       IN <<SubSeq(s, 1, k - 1)>> \o Split(SubSeq(s, k + 1, Len(s)), sep)

\* str.strip() for the blank
RECURSIVE Strip(_)
Strip(s) ==
  IF s = <<>> THEN s
  ELSE IF s[1] = " " THEN Strip(Tail(s))
  ELSE IF s[Len(s)] = " " THEN Strip(SubSeq(s, 1, Len(s) - 1))
  ELSE s

\* ------------------------------------------------------------------------
\* int(parts[2]): blanks stripped, an optional sign, decimal digits with
\* single underscores allowed between digits; None stands for ValueError.
\* ------------------------------------------------------------------------
IntOfStr(field) ==
  LET s == Strip(field)
      signed == s # <<>> /\ s[1] \in {"+", "-"}
      body == IF signed THEN Tail(s) ELSE s
      wellFormed ==
        /\ body # <<>>
        /\ IsDigit(body[1])
        /\ IsDigit(body[Len(body)])
        /\ \A k \in 1..Len(body) : IsDigit(body[k]) \/ body[k] = "_"
        /\ \A k \in 1..(Len(body) - 1) : ~(body[k] = "_" /\ body[k + 1] = "_")
      digits == SelectSeq(body, IsDigit)
  IN IF ~wellFormed THEN None
     ELSE IF signed /\ s[1] = "-" THEN [value |-> 0 - DigitsVal(digits)]
     ELSE [value |-> DigitsVal(digits)]

\* ------------------------------------------------------------------------
\* datetime.strptime(expiry_str, '%d%b%y').date().isoformat()
\* ------------------------------------------------------------------------
MonthNames ==
  << <<"J", "A", "N">>, <<"F", "E", "B">>, <<"M", "A", "R">>,
     <<"A", "P", "R">>, <<"M", "A", "Y">>, <<"J", "U", "N">>,
     <<"J", "U", "L">>, <<"A", "U", "G">>, <<"S", "E", "P">>,
     <<"O", "C", "T">>, <<"N", "O", "V">>, <<"D", "E", "C">> >>

IsLeap(y) == (y % 4 = 0) /\ ((y % 100 # 0) \/ (y % 400 = 0))

DaysInMonth(y, m) ==
  IF m = 2 THEN (IF IsLeap(y) THEN 29 ELSE 28)
  ELSE IF m \in {4, 6, 9, 11} THEN 30 ELSE 31

\* the %d directive: 3[0-1] | [1-2]\d | 0[1-9] | [1-9] | ' '[1-9]
DayOfToken(d) ==
  IF Len(d) = 1
  THEN (IF IsDigit(d[1]) /\ d[1] # "0" THEN [value |-> DigitVal(d[1])] ELSE None)
  ELSE IF d[1] = " "
  THEN (IF IsDigit(d[2]) /\ d[2] # "0" THEN [value |-> DigitVal(d[2])] ELSE None)
  ELSE IF IsDigit(d[1]) /\ IsDigit(d[2]) /\ DigitsVal(d) \in 1..31
  THEN [value |-> DigitsVal(d)]
  ELSE None

\* %b takes three letters (any case) and %y two digits, so the length of the
\* token fixes how many characters %d takes.
Strptime(tok) ==
  IF Len(tok) \notin {6, 7} THEN None
  ELSE LET dlen == Len(tok) - 5
           day == DayOfToken(SubSeq(tok, 1, dlen))
           mon == UpperStr(SubSeq(tok, dlen + 1, dlen + 3))
           yy == SubSeq(tok, dlen + 4, dlen + 5)
       IN IF \/ day = None
             \/ ~(\E m \in 1..12 : MonthNames[m] = mon)
             \/ ~(IsDigit(yy[1]) /\ IsDigit(yy[2]))
          THEN None
          ELSE LET m == CHOOSE k \in 1..12 : MonthNames[k] = mon
                   y == IF DigitsVal(yy) < 69 THEN 2000 + DigitsVal(yy)
                        ELSE 1900 + DigitsVal(yy)
               IN IF day.value > DaysInMonth(y, m) THEN None
                  ELSE [year |-> y, month |-> m, day |-> day.value]

IsoFormat(date) ==
  ZeroPad(date.year, 4) \o <<"-">> \o ZeroPad(date.month, 2)
    \o <<"-">> \o ZeroPad(date.day, 2)

\* ------------------------------------------------------------------------
\* parse_instrument_name
\* ------------------------------------------------------------------------
OptionTypeOf(code) == IF code = <<"C">> THEN "CALL" ELSE "PUT"

parse_instrument_name(instrument) ==
  LET parts == Split(instrument, "-")
  IN IF Len(parts) # 4 THEN None
     ELSE LET strike_price == IntOfStr(parts[3])
              expiry_date == Strptime(parts[2])
          IN IF strike_price = None \/ expiry_date = None THEN None
             ELSE [asset |-> parts[1],
                   expiry_date |-> IsoFormat(expiry_date),
                   strike_price |-> strike_price.value,
                   option_type |-> OptionTypeOf(parts[4])]

\* ------------------------------------------------------------------------
\* Identifiers handed to the decoder
\* ------------------------------------------------------------------------
AssetTokens == { <<"B", "T", "C">>, <<"E", "T", "H">> }

DateTokens ==
  { <<"1", "9", "J", "U", "L", "1", "9">>,
    <<"1", "J", "U", "L", "1", "9">>,
    <<"2", "9", "f", "e", "b", "2", "0">>,
    <<"2", "9", "F", "E", "B", "1", "9">>,
    <<"3", "2", "J", "U", "L", "1", "9">>,
    <<"2", "5", "D", "E", "C", "6", "9">>,
    <<"P", "E", "R", "P", "E", "T", "U", "A", "L">>,
    <<>> }

StrikeTokens ==
  { <<"1", "0", "0", "0", "0">>,
    <<"7", "5", "0">>,
    <<"1", "_", "0">>,
    <<"+", "5">>,
    <<"1", ".", "5">>,
    <<"a", "b", "c">>,
    <<>> }

ClassTokens == { <<"C">>, <<"P">>, <<"X">>, <<"c">>, <<"C", "P">>, <<>> }

RECURSIVE Join(_)
Join(fields) ==
  IF Len(fields) = 1 THEN fields[1]
  ELSE fields[1] \o <<"-">> \o Join(Tail(fields))

FourFieldIdentifiers ==
  { Join(<<a, d, s, c>>) :
      a \in AssetTokens, d \in DateTokens, s \in StrikeTokens, c \in ClassTokens }

OtherIdentifiers ==
  { Join(<<a, d>>) : a \in AssetTokens, d \in DateTokens }
    \cup { Join(<<a, d, s>>) : a \in AssetTokens, d \in DateTokens, s \in StrikeTokens }
    \cup { Join(<<a, d, s, c, c>>) :
             a \in {<<"B", "T", "C">>}, d \in {<<"1", "9", "J", "U", "L", "1", "9">>},
             s \in StrikeTokens, c \in ClassTokens }
    \cup { <<>> }

Identifiers == FourFieldIdentifiers \cup OtherIdentifiers

\* ------------------------------------------------------------------------
\* Decoder run on one identifier
\* ------------------------------------------------------------------------
VARIABLES
  identifier,            \* the argument of parse_instrument_name
  parsed,                \* its result, None before the call and on failure
  dpc,                   \* "idle" | "call" | "returned"
  files,                 \* sorted(input_dir.glob('*.feather')), loaded lazily
  i,                     \* number of files the scan loop has gone through
  instruments_data,      \* dict in insertion order: <<[instrument, trade_dfs]>>
  files_per_instrument,  \* defaultdict(int)
  processed_files,
  total_trades,
  pc,                    \* "idle" | "scan" | "write" | "done" | "nofiles" | "interrupted"
  w,                     \* position of the write loop in instruments_data
  step,                  \* "mkdir" | "feather" | "metadata" inside save_option_data
  trades_df,             \* save_option_data's sorted frame
  dirs,                  \* instrument directories under output_dir
  trades_file,           \* output_dir/<instrument>/trades.feather
  metadata_file,         \* output_dir/<instrument>/metadata.json
  saved_options,
  saved_trades,
  errors                 \* instruments reported by "Error saving ..."

decoderVars == <<identifier, parsed, dpc>>

scanVars == <<files, i, instruments_data, files_per_instrument,
              processed_files, total_trades>>

writeVars == <<w, step, trades_df, dirs, trades_file, metadata_file,
               saved_options, saved_trades, errors>>

vars == <<decoderVars, scanVars, pc, writeVars>>

\* ------------------------------------------------------------------------
\* Trade rows and source files
\* ------------------------------------------------------------------------
InstrA == <<"B", "T", "C", "-", "1", "9", "J", "U", "L", "1", "9", "-",
            "1", "0", "0", "0", "0", "-", "C">>

InstrB == <<"B", "T", "C", "-", "1", "9", "J", "U", "L", "1", "9", "-",
            "1", "0", "0", "0", "0", "-", "P">>

InstrU == <<"B", "T", "C", "-", "P", "E", "R", "P", "E", "T", "U", "A", "L">>

InstrumentNames == {InstrA, InstrB, InstrU}

TradeIds == {1, 2}

Timestamps == {50, 1000100}

Prices == {3}

Ivs == {60}

Row(n, id, ts, q, p, v) ==
  [instrument |-> n, id |-> id, timestamp |-> ts, quantity |-> q,
   price |-> p, iv |-> v]

\* A trades under every id at every timestamp, the quantity of a trade being
\* its id; B and U carry one trade each.
Rows ==
  { Row(InstrA, id, ts, id, p, v) :
      id \in TradeIds, ts \in Timestamps, p \in Prices, v \in Ivs }
    \cup { Row(InstrB, 1, 50, 2, p, v) : p \in Prices, v \in Ivs }
    \cup { Row(InstrU, 1, 50, 1, p, v) : p \in Prices, v \in Ivs }

RECURSIVE SeqsUpTo(_, _)
SeqsUpTo(S, n) ==
  IF n = 0 THEN {<<>>}
  ELSE LET shorter == SeqsUpTo(S, n - 1)
       IN shorter \cup { Append(s, x) : s \in {t \in shorter : Len(t) = n - 1}, x \in S }

\* a daily file: read_feather raises ("error") or yields its rows
FileContents ==
  { [load |-> "error", rows |-> <<>>] }
    \cup { [load |-> "ok", rows |-> r] : r \in SeqsUpTo(Rows, MaxRows) }

FileSequences == SeqsUpTo(FileContents, MaxFiles)

\* ------------------------------------------------------------------------
\* Frame operations used by the two passes
\* ------------------------------------------------------------------------
\* df['instrument'].unique(): the values in order of first appearance
RECURSIVE Unique(_)
Unique(rows) ==
  IF rows = <<>> THEN <<>>
  ELSE LET n == rows[Len(rows)].instrument
           before == Unique(SubSeq(rows, 1, Len(rows) - 1))
       IN IF \E k \in 1..Len(before) : before[k] = n THEN before
          ELSE Append(before, n)

\* df[df['instrument'] == instrument].copy()
InstrumentTrades(rows, instrument) ==
  LET Mine(r) == r.instrument = instrument
  IN SelectSeq(rows, Mine)

\* pd.concat(trade_dfs, ignore_index=True)
RECURSIVE Concat(_)
Concat(trade_dfs) ==
  IF trade_dfs = <<>> THEN <<>>
  ELSE trade_dfs[1] \o Concat(Tail(trade_dfs))

\* drop_duplicates with keep='last'
RECURSIVE DropDuplicatesKeepLast(_)
DropDuplicatesKeepLast(df) ==
  IF df = <<>> THEN <<>>
  ELSE LET rest == Tail(df)
       IN IF \E k \in 1..Len(rest) : rest[k].id = df[1].id
          THEN DropDuplicatesKeepLast(rest)
          ELSE <<df[1]>> \o DropDuplicatesKeepLast(rest)

\* combined_df.drop_duplicates(subset=['id'], keep='first')
RECURSIVE DropDuplicates(_)
DropDuplicates(df) ==
  IF df = <<>> THEN <<>>
  ELSE LET last == df[Len(df)]
           front == SubSeq(df, 1, Len(df) - 1)
       IN IF \E k \in 1..Len(front) : front[k].id = last.id
          THEN DropDuplicates(front)
          ELSE Append(DropDuplicates(front), last)

\* all orderings of the index set 1..n
RECURSIVE Orderings(_)
Orderings(n) ==
  IF n = 0 THEN {<<>>}
  ELSE { [k \in 1..n |-> IF k < pos THEN o[k] ELSE IF k = pos THEN n ELSE o[k - 1]] :
           o \in Orderings(n - 1), pos \in 1..n }

\* the frame left in merge order
SortValuesOmitted(df) == {df}

\* trades_df.sort_values('timestamp').reset_index(drop=True): the default
\* sort is not stable, so rows with equal timestamps may come out in any order
SortValues(df) ==
  { [k \in 1..Len(df) |-> df[o[k]]] :
      o \in { p \in Orderings(Len(df)) :
                \A k \in 1..(Len(df) - 1) :
                  df[p[k]].timestamp <= df[p[k + 1]].timestamp } }

\* pd.to_datetime(timestamp, unit='us', utc=True), as seconds and microseconds
\* since the epoch
MicrosPerSecond == 1000000

ToDatetime(timestamp) ==
  [second |-> timestamp \div MicrosPerSecond,
   microsecond |-> timestamp % MicrosPerSecond]

DatetimeLeq(a, b) ==
  \/ a.second < b.second
  \/ a.second = b.second /\ a.microsecond <= b.microsecond

DatetimeMin(df) ==
  CHOOSE d \in {ToDatetime(df[k].timestamp) : k \in 1..Len(df)} :
    \A k \in 1..Len(df) : DatetimeLeq(d, ToDatetime(df[k].timestamp))

DatetimeMax(df) ==
  CHOOSE d \in {ToDatetime(df[k].timestamp) : k \in 1..Len(df)} :
    \A k \in 1..Len(df) : DatetimeLeq(ToDatetime(df[k].timestamp), d)

ColumnMin(df, col) ==
  CHOOSE x \in {df[k][col] : k \in 1..Len(df)} :
    \A k \in 1..Len(df) : x <= df[k][col]

ColumnMax(df, col) ==
  CHOOSE x \in {df[k][col] : k \in 1..Len(df)} :
    \A k \in 1..Len(df) : df[k][col] <= x

RECURSIVE ColumnSum(_, _)
ColumnSum(df, col) ==
  IF df = <<>> THEN 0
  ELSE df[1][col] + ColumnSum(Tail(df), col)

\* the volume summed over the price column
generate_metadata_price_volume(instrument, df, files_count) ==
  LET key == parse_instrument_name(instrument)
  IN IF key = None THEN None
     ELSE [instrument |-> instrument,
           asset |-> key.asset,
           expiry_date |-> key.expiry_date,
           strike_price |-> key.strike_price,
           option_type |-> key.option_type,
           total_trades |-> Len(df),
           total_volume |-> ColumnSum(df, "price"),
           first_trade |-> DatetimeMin(df),
           last_trade |-> DatetimeMax(df),
           price_range |-> [min |-> ColumnMin(df, "price"),
                            max |-> ColumnMax(df, "price")],
           iv_range |-> [min |-> ColumnMin(df, "iv"),
                         max |-> ColumnMax(df, "iv")],
           data_files_processed |-> files_count]

\* ------------------------------------------------------------------------
\* generate_metadata
\* ------------------------------------------------------------------------
generate_metadata(instrument, df, files_count) ==
  LET key == parse_instrument_name(instrument)
  IN IF key = None THEN None
     ELSE [instrument |-> instrument,
           asset |-> key.asset,
           expiry_date |-> key.expiry_date,
           strike_price |-> key.strike_price,
           option_type |-> key.option_type,
           total_trades |-> Len(df),
           total_volume |-> ColumnSum(df, "quantity"),
           first_trade |-> DatetimeMin(df),
           last_trade |-> DatetimeMax(df),
           price_range |-> [min |-> ColumnMin(df, "price"),
                            max |-> ColumnMax(df, "price")],
           iv_range |-> [min |-> ColumnMin(df, "iv"),
                         max |-> ColumnMax(df, "iv")],
           data_files_processed |-> files_count]

\* ------------------------------------------------------------------------
\* The file-scan pass of process_all_files
\* ------------------------------------------------------------------------
\* instruments_data[instrument].append(batch), a new key going last
AppendBatch(data, instrument, batch) ==
  IF \E k \in 1..Len(data) : data[k].instrument = instrument
  THEN LET k == CHOOSE j \in 1..Len(data) : data[j].instrument = instrument
       IN [data EXCEPT ![k].trade_dfs = Append(@, batch)]
  ELSE Append(data, [instrument |-> instrument, trade_dfs |-> <<batch>>])

\* the counter incremented once per row instead of once per file
RECURSIVE GroupTradesPerRow(_, _, _)
GroupTradesPerRow(acc, rows, names) ==
  IF names = <<>> THEN acc
  ELSE GroupTradesPerRow(
         [acc EXCEPT
            !.data = AppendBatch(@, names[1], InstrumentTrades(rows, names[1])),
            !.counts[names[1]] = @ + Len(InstrumentTrades(rows, names[1]))],
         rows, Tail(names))

\* the loop over df['instrument'].unique()
RECURSIVE GroupTrades(_, _, _)
GroupTrades(acc, rows, names) ==
  IF names = <<>> THEN acc
  ELSE GroupTrades(
         [acc EXCEPT
            !.data = AppendBatch(@, names[1], InstrumentTrades(rows, names[1])),
            !.counts[names[1]] = @ + 1],
         rows, Tail(names))

\* a failing file that discards what was accumulated before it
ScanFileDropsOnError(file, acc) ==
  IF file.load = "error"
  THEN [acc EXCEPT !.data = <<>>, !.counts = [n \in DOMAIN @ |-> 0]]
  ELSE IF file.rows = <<>> THEN acc
  ELSE [GroupTrades(acc, file.rows, Unique(file.rows)) EXCEPT
          !.total_trades = @ + Len(file.rows),
          !.processed_files = @ + 1]

\* one iteration of the loop over files, on the accumulated state
ScanFile(file, acc) ==
  IF file.load = "error" THEN acc
  ELSE IF file.rows = <<>> THEN acc
  ELSE [GroupTrades(acc, file.rows, Unique(file.rows)) EXCEPT
          !.total_trades = @ + Len(file.rows),
          !.processed_files = @ + 1]

Accumulated ==
  [data |-> instruments_data, counts |-> files_per_instrument,
   total_trades |-> total_trades, processed_files |-> processed_files]

EmptyAccumulation ==
  [data |-> <<>>, counts |-> [n \in InstrumentNames |-> 0],
   total_trades |-> 0, processed_files |-> 0]

ScanStep ==
  LET acc == ScanFile(files[i + 1], Accumulated)
  IN /\ instruments_data' = acc.data
     /\ files_per_instrument' = acc.counts
     /\ total_trades' = acc.total_trades
     /\ processed_files' = acc.processed_files
     /\ i' = i + 1
     /\ UNCHANGED <<files, pc, decoderVars, writeVars>>

NoFiles ==
  /\ pc = "scan"
  /\ files = <<>>
  /\ pc' = "nofiles"
  /\ UNCHANGED <<scanVars, decoderVars, writeVars>>

ScanFileError ==
  /\ pc = "scan"
  /\ i < Len(files)
  /\ files[i + 1].load = "error"
  /\ ScanStep

ScanFileEmpty ==
  /\ pc = "scan"
  /\ i < Len(files)
  /\ files[i + 1].load = "ok"
  /\ files[i + 1].rows = <<>>
  /\ ScanStep

ScanFileOk ==
  /\ pc = "scan"
  /\ i < Len(files)
  /\ files[i + 1].load = "ok"
  /\ files[i + 1].rows # <<>>
  /\ ScanStep

FinishScan ==
  /\ pc = "scan"
  /\ files # <<>>
  /\ i = Len(files)
  /\ pc' = "write"
  /\ UNCHANGED <<scanVars, decoderVars, writeVars>>

\* ------------------------------------------------------------------------
\* The write pass: save_option_data for each key of instruments_data
\* ------------------------------------------------------------------------
Absent == [state |-> "absent"]

Partial == [state |-> "partial"]

Complete(content) == [state |-> "complete", content |-> content]

\* the except branch leaving the write loop
AfterErrorBreaks(pos) == Len(instruments_data) + 1

\* the except branch of the write loop: report, then continue with the next key
AfterError(pos) == pos + 1

Saving == pc = "write" /\ w <= Len(instruments_data)

Current == instruments_data[w]

Raise ==
  /\ errors' = errors \cup {Current.instrument}
  /\ w' = AfterError(w)
  /\ step' = "mkdir"
  /\ trades_df' = <<>>
  /\ UNCHANGED <<saved_options, saved_trades>>

\* concat, drop_duplicates, option_dir.mkdir, sort_values
BeginSave ==
  /\ Saving
  /\ step = "mkdir"
  /\ dirs' = dirs \cup {Current.instrument}
  /\ trades_df' \in SortValues(DropDuplicates(Concat(Current.trade_dfs)))
  /\ step' = "feather"
  /\ UNCHANGED <<w, trades_file, metadata_file, saved_options, saved_trades, errors>>
  /\ UNCHANGED <<scanVars, pc, decoderVars>>

MkdirFails ==
  /\ Saving
  /\ step = "mkdir"
  /\ Raise
  /\ UNCHANGED <<dirs, trades_file, metadata_file>>
  /\ UNCHANGED <<scanVars, pc, decoderVars>>

\* trades_df.to_feather(trades_path)
WriteTrades ==
  /\ Saving
  /\ step = "feather"
  /\ trades_file' = [trades_file EXCEPT ![Current.instrument] = Complete(trades_df)]
  /\ step' = "metadata"
  /\ UNCHANGED <<w, trades_df, dirs, metadata_file, saved_options, saved_trades, errors>>
  /\ UNCHANGED <<scanVars, pc, decoderVars>>

\* to_feather raises before the file is created, or with part of it written
WriteTradesFails ==
  /\ Saving
  /\ step = "feather"
  /\ \E left \in {trades_file[Current.instrument], Partial} :
       trades_file' = [trades_file EXCEPT ![Current.instrument] = left]
  /\ Raise
  /\ UNCHANGED <<dirs, metadata_file>>
  /\ UNCHANGED <<scanVars, pc, decoderVars>>

Metadata ==
  generate_metadata(Current.instrument, trades_df,
                    files_per_instrument[Current.instrument])

Saved ==
  /\ saved_options' = saved_options + 1
  /\ saved_trades' = saved_trades + Len(trades_df)
  /\ w' = w + 1
  /\ step' = "mkdir"
  /\ trades_df' = <<>>
  /\ UNCHANGED errors

\* generate_metadata returns a record: json.dump, return len(trades_df)
WriteMetadata ==
  /\ Saving
  /\ step = "metadata"
  /\ Metadata # None
  /\ metadata_file' = [metadata_file EXCEPT ![Current.instrument] = Complete(Metadata)]
  /\ Saved
  /\ UNCHANGED <<dirs, trades_file>>
  /\ UNCHANGED <<scanVars, pc, decoderVars>>

\* generate_metadata returns None: nothing more is written, return len(trades_df)
SkipMetadata ==
  /\ Saving
  /\ step = "metadata"
  /\ Metadata = None
  /\ Saved
  /\ UNCHANGED <<dirs, trades_file, metadata_file>>
  /\ UNCHANGED <<scanVars, pc, decoderVars>>

\* open(metadata_path, 'w') raises, or json.dump raises on the truncated file
WriteMetadataFails ==
  /\ Saving
  /\ step = "metadata"
  /\ Metadata # None
  /\ \E left \in {metadata_file[Current.instrument], Partial} :
       metadata_file' = [metadata_file EXCEPT ![Current.instrument] = left]
  /\ Raise
  /\ UNCHANGED <<dirs, trades_file>>
  /\ UNCHANGED <<scanVars, pc, decoderVars>>

FinishWrite ==
  /\ pc = "write"
  /\ w > Len(instruments_data)
  /\ pc' = "done"
  /\ UNCHANGED <<scanVars, decoderVars, writeVars>>

\* KeyboardInterrupt is not an Exception: it leaves both loops and main exits
Interrupt ==
  /\ pc \in {"scan", "write"}
  /\ pc' = "interrupted"
  /\ UNCHANGED <<scanVars, decoderVars, writeVars>>

\* ------------------------------------------------------------------------
\* Specification of a run of the parser
\* ------------------------------------------------------------------------
DecoderIdle ==
  /\ identifier = <<>>
  /\ parsed = None
  /\ dpc = "idle"

Init ==
  /\ DecoderIdle
  /\ files \in FileSequences
  /\ i = 0
  /\ instruments_data = <<>>
  /\ files_per_instrument = [n \in InstrumentNames |-> 0]
  /\ processed_files = 0
  /\ total_trades = 0
  /\ pc = "scan"
  /\ w = 1
  /\ step = "mkdir"
  /\ trades_df = <<>>
  /\ dirs = {}
  /\ trades_file = [n \in InstrumentNames |-> Absent]
  /\ metadata_file = [n \in InstrumentNames |-> Absent]
  /\ saved_options = 0
  /\ saved_trades = 0
  /\ errors = {}

Next ==
  \/ NoFiles
  \/ ScanFileError
  \/ ScanFileEmpty
  \/ ScanFileOk
  \/ FinishScan
  \/ BeginSave
  \/ MkdirFails
  \/ WriteTrades
  \/ WriteTradesFails
  \/ WriteMetadata
  \/ SkipMetadata
  \/ WriteMetadataFails
  \/ FinishWrite
  \/ Interrupt

Spec == Init /\ [][Next]_vars

\* ------------------------------------------------------------------------
\* Specification of the decoder alone, on every identifier of Identifiers
\* ------------------------------------------------------------------------
InitDecoder ==
  /\ identifier \in Identifiers
  /\ parsed = None
  /\ dpc = "call"
  /\ files = <<>>
  /\ i = 0
  /\ instruments_data = <<>>
  /\ files_per_instrument = [n \in InstrumentNames |-> 0]
  /\ processed_files = 0
  /\ total_trades = 0
  /\ pc = "idle"
  /\ w = 1
  /\ step = "mkdir"
  /\ trades_df = <<>>
  /\ dirs = {}
  /\ trades_file = [n \in InstrumentNames |-> Absent]
  /\ metadata_file = [n \in InstrumentNames |-> Absent]
  /\ saved_options = 0
  /\ saved_trades = 0
  /\ errors = {}

Decode ==
  /\ dpc = "call"
  /\ parsed' = parse_instrument_name(identifier)
  /\ dpc' = "returned"
  /\ UNCHANGED <<identifier, scanVars, pc, writeVars>>

NextDecoder == Decode

SpecDecoder == InitDecoder /\ [][NextDecoder]_vars

\* ------------------------------------------------------------------------
\* Vocabulary of the properties
\* ------------------------------------------------------------------------
Scanned == SubSeq(files, 1, i)

LoadedFiles(fs) ==
  LET Loaded(f) == f.load = "ok"
  IN SelectSeq(fs, Loaded)

\* the accumulation the scan pass produces over a whole file sequence
RECURSIVE ScanAll(_)
ScanAll(fs) ==
  IF fs = <<>> THEN EmptyAccumulation
  ELSE ScanFile(fs[Len(fs)], ScanAll(SubSeq(fs, 1, Len(fs) - 1)))

RECURSIVE RowsOf(_)
RowsOf(fs) ==
  IF fs = <<>> THEN <<>>
  ELSE fs[1].rows \o RowsOf(Tail(fs))

\* the instrument's rows in merge order: file order, then row order
MergeOrder(n) == InstrumentTrades(RowsOf(LoadedFiles(files)), n)

BatchesOf(n) ==
  IF \E k \in 1..Len(instruments_data) : instruments_data[k].instrument = n
  THEN instruments_data[CHOOSE k \in 1..Len(instruments_data) :
                          instruments_data[k].instrument = n].trade_dfs
  ELSE <<>>

Contains(file, n) ==
  file.load = "ok" /\ \E k \in 1..Len(file.rows) : file.rows[k].instrument = n

Decodable(n) == parse_instrument_name(n) # None

Persisted(n) ==
  trades_file[n].state = "complete" /\ metadata_file[n].state = "complete"

AccumulatedNames == {instruments_data[k].instrument : k \in 1..Len(instruments_data)}

RECURSIVE SumOver(_, _)
SumOver(S, f) ==
  IF S = {} THEN 0
  ELSE LET x == CHOOSE y \in S : TRUE
       IN f[x] + SumOver(S \ {x}, f)

\* ------------------------------------------------------------------------
\* C1: an instrument whose identifier fails to decode gets no artifact at
\* all: after the write pass neither its trade-history file nor its metadata
\* file exists.
\* ------------------------------------------------------------------------
C1_UndecodableWritesNothing ==
  pc = "done" =>
    \A n \in AccumulatedNames :
      ~Decodable(n) => trades_file[n] = Absent /\ metadata_file[n] = Absent

\* ------------------------------------------------------------------------
\* C2: in every state of the write pass, between the write steps, after a
\* failed step and after an interrupt, an instrument's trade history is
\* visible if and only if its metadata is visible.
\* ------------------------------------------------------------------------
C2_ArtifactsVisibleTogether ==
  \A n \in InstrumentNames :
    (trades_file[n] # Absent) <=> (metadata_file[n] # Absent)

\* ------------------------------------------------------------------------
\* C3: the decoder returns a decode failure for every identifier that does
\* not have exactly four '-'-separated fields, has a non-integer strike, has
\* an unparseable date, or has an option class other than 'C' or 'P'.
\* ------------------------------------------------------------------------
C3_DecoderRejects ==
  LET parts == Split(identifier, "-")
  IN dpc = "returned" =>
       ( ( \/ Len(parts) # 4
           \/ IntOfStr(parts[3]) = None
           \/ Strptime(parts[2]) = None
           \/ parts[4] \notin { <<"C">>, <<"P">> } )
         => parsed = None )

\* ------------------------------------------------------------------------
\* C4: a persisted trade history has no two rows with the same trade id, and
\* the row kept for an id is its first occurrence in merge order (earliest
\* loaded file, earliest row in that file); every id of the merge is kept.
\* ------------------------------------------------------------------------
C4_FirstOccurrenceKept ==
  \A n \in InstrumentNames :
    trades_file[n].state = "complete" =>
      LET kept == trades_file[n].content
          merged == MergeOrder(n)
          First(id) == CHOOSE j \in 1..Len(merged) :
                         /\ merged[j].id = id
                         /\ \A m \in 1..(j - 1) : merged[m].id # id
      IN /\ \A a, b \in 1..Len(kept) : kept[a].id = kept[b].id => a = b
         /\ \A j \in 1..Len(merged) : \E a \in 1..Len(kept) : kept[a].id = merged[j].id
         /\ \A a \in 1..Len(kept) :
              /\ \E j \in 1..Len(merged) : merged[j].id = kept[a].id
              /\ kept[a] = merged[First(kept[a].id)]

C4_Witness ==
  \E n \in InstrumentNames :
    /\ trades_file[n].state = "complete"
    /\ \E j, m \in 1..Len(MergeOrder(n)) :
         /\ j < m
         /\ MergeOrder(n)[j].id = MergeOrder(n)[m].id
         /\ MergeOrder(n)[j] # MergeOrder(n)[m]
    /\ Len(files) = 2
    /\ Contains(files[1], n)
    /\ Contains(files[2], n)

\* ------------------------------------------------------------------------
\* C5: in every persisted trade history the timestamps are non-decreasing
\* from the first row to the last, whatever order the files delivered.
\* ------------------------------------------------------------------------
C5_Chronological ==
  \A n \in InstrumentNames :
    trades_file[n].state = "complete" =>
      \A k \in 1..(Len(trades_file[n].content) - 1) :
        trades_file[n].content[k].timestamp
          <= trades_file[n].content[k + 1].timestamp

C5_Witness ==
  \E n \in InstrumentNames :
    /\ trades_file[n].state = "complete"
    /\ Len(trades_file[n].content) = 2
    /\ Len(MergeOrder(n)) = 2
    /\ MergeOrder(n)[1].timestamp > MergeOrder(n)[2].timestamp

\* ------------------------------------------------------------------------
\* C6: the accumulation over the files scanned so far equals the
\* accumulation over the same files with the failing ones removed (batches,
\* contribution counters and run counters), and the write pass starts only
\* after every file was scanned.
\* ------------------------------------------------------------------------
C6_FailingFilesContributeNothing ==
  pc # "idle" =>
    /\ Accumulated = ScanAll(LoadedFiles(Scanned))
    /\ pc \in {"write", "done"} => i = Len(files)

C6_Witness ==
  /\ pc = "write"
  /\ Len(files) = 2
  /\ files[1].load = "error"
  /\ files[2].load = "ok"
  /\ instruments_data # <<>>

\* ------------------------------------------------------------------------
\* C7: after every step of the scan pass an instrument's contribution
\* counter equals the length of its batch list and the number of loaded
\* files scanned so far that hold a row of it; it is the value written as
\* data_files_processed.
\* ------------------------------------------------------------------------
C7_ContributionCounter ==
  \A n \in InstrumentNames :
    /\ files_per_instrument[n] = Len(BatchesOf(n))
    /\ files_per_instrument[n] = Cardinality({k \in 1..i : Contains(files[k], n)})
    /\ metadata_file[n].state = "complete" =>
         metadata_file[n].content.data_files_processed
           = Cardinality({k \in 1..Len(files) : Contains(files[k], n)})

C7_Witness ==
  \E n \in InstrumentNames :
    /\ metadata_file[n].state = "complete"
    /\ files_per_instrument[n] = 1
    /\ Len(MergeOrder(n)) = 2
    /\ \E k \in 1..Len(files) : files[k].load = "ok" /\ files[k].rows = <<>>

\* ------------------------------------------------------------------------
\* C8: for an instrument with both artifacts persisted, the metadata agrees
\* with the trade history: total_trades is its row count, total_volume the
\* sum of its quantities, first_trade and last_trade the times of its first
\* and last rows, which are the minimum and the maximum.
\* ------------------------------------------------------------------------
C8_MetadataAgrees ==
  \A n \in InstrumentNames :
    Persisted(n) =>
      LET t == trades_file[n].content
          m == metadata_file[n].content
      IN /\ m.total_trades = Len(t)
         /\ m.total_volume = ColumnSum(t, "quantity")
         /\ m.first_trade = ToDatetime(t[1].timestamp)
         /\ m.last_trade = ToDatetime(t[Len(t)].timestamp)
         /\ \A k \in 1..Len(t) :
              /\ DatetimeLeq(m.first_trade, ToDatetime(t[k].timestamp))
              /\ DatetimeLeq(ToDatetime(t[k].timestamp), m.last_trade)

C8_Witness ==
  \E n \in InstrumentNames :
    /\ Persisted(n)
    /\ Len(trades_file[n].content) = 2
    /\ trades_file[n].content[1].timestamp < trades_file[n].content[2].timestamp
    /\ trades_file[n].content[1].quantity # trades_file[n].content[2].quantity

\* ------------------------------------------------------------------------
\* C9: when the run completes every accumulated instrument is terminal
\* (persisted, decode failed or persist failed), and every instrument that
\* neither failed to decode nor failed to persist has both artifacts, with
\* the content its own batches give, whichever siblings failed.
\* ------------------------------------------------------------------------
C9_SiblingsUnaffected ==
  pc = "done" =>
    \A n \in AccumulatedNames :
      /\ Persisted(n) \/ ~Decodable(n) \/ n \in errors
      /\ (Decodable(n) /\ n \notin errors) =>
           /\ Persisted(n)
           /\ trades_file[n].content
                \in SortValues(DropDuplicates(Concat(BatchesOf(n))))
           /\ metadata_file[n].content
                = generate_metadata(n, trades_file[n].content, Len(BatchesOf(n)))

C9_Witness ==
  /\ pc = "done"
  /\ Len(instruments_data) = 3
  /\ instruments_data[1].instrument \in errors
  /\ ~Decodable(instruments_data[2].instrument)
  /\ Persisted(instruments_data[3].instrument)

\* ------------------------------------------------------------------------
\* C10: on completion 'instruments saved' is the number of instruments with
\* both artifacts persisted, and 'total trades saved' is the sum of the row
\* counts of exactly those instruments' trade histories.
\* ------------------------------------------------------------------------
C10_CountersMatchPersisted ==
  pc = "done" =>
    LET saved == {n \in InstrumentNames : Persisted(n)}
        rows == [n \in InstrumentNames |->
                   IF Persisted(n) THEN Len(trades_file[n].content) ELSE 0]
    IN /\ saved_options = Cardinality(saved)
       /\ saved_trades = SumOver(saved, rows)

====
